---- MODULE Spec2Model ----
(***************************************************************************)
(* Model of monitor.py: the stock classifier is_in_stock, the state store  *)
(* (save_state / load_state over a small file system), the page extractors *)
(* and the run coordinator main().                                         *)
(*                                                                         *)
(* Python strings are sequences of one-character strings; Python's None is *)
(* the one-element sequence None, whose element is no character of any     *)
(* modelled string.  A character outside printable ASCII is written by its *)
(* code point: "u5728" is U+5728.  The character tables (Whitespace, the   *)
(* case tables) cover U+0000..U+00FF, the other whitespace characters, the *)
(* Greek sigmas, the full-width Latin letters and the characters of the    *)
(* default patterns.                                                       *)
(*                                                                         *)
(* A Python dict is a function; where the order of its keys shows (the     *)
(* state and its items, which json.dump writes in insertion order) the     *)
(* keys are held in that order next to it, under "keys()" for the state    *)
(* and "items.keys()" for its items.  Every call of datetime.utcnow() in a *)
(* run reads the time of the run, now.                                     *)
(***************************************************************************)
EXTENDS Integers, Sequences, FiniteSets, TLC

VARIABLES
    cfg,              \* the dict returned by load_config (keys may be absent)
    env,              \* os.environ: the set of variables that are set
    fs,               \* the file system: path -> file content
    pc,               \* position of the current run of main()
    now,              \* datetime.utcnow(), one tick per run
    state,            \* main: state
    prev_items,       \* main: prev_items
    items,            \* main: items
    idx,              \* main: position of the loop "for it in items"
    new_state_items,  \* main: new_state_items
    notifications,    \* main: notifications
    reasons,          \* main: value of "reason" for each processed item
    sent,             \* main: position of the loop "for it, embed in notifications"
    attempts,         \* requests.post calls made by this run, in order
    fetched,          \* whether this run called the page extractor
    saving,           \* whether this run entered save_state
    diskAtStart,      \* content of the state file when this run started
    lastCompleted,    \* << items >> of the run before this one if it completed
    decided,          \* decisions whose snapshot was saved: those the run before left
                      \* undelivered (prev), those of this run (cur)
    vanished,         \* identities the run before found recorded in stock and, completing,
                      \* did not extract
    outcome,          \* "running", or the first thing that ended or failed the run
    c_item,           \* is_in_stock on its own: the item it is handed
    c_result,         \* is_in_stock on its own: << >>, then << what it returned >>
    p_page,           \* the extractors on their own: the page they are handed
    p_bs4,            \* << >>, then << what parse_with_bs4 returned >>
    p_playwright,     \* << >>, then << what parse_with_playwright returned >>
    s_loaded          \* the state store on its own: the last load_state call

vars == << cfg, env, fs, pc, now, state, prev_items, items, idx, new_state_items,
           notifications, reasons, sent, attempts, fetched, saving, diskAtStart,
           lastCompleted, decided, vanished, outcome, c_item, c_result, p_page, p_bs4, p_playwright, s_loaded >>

----------------------------------------------------------------------------
(* Bounds *)

MaxItems == 2      \* elements on one page
MaxRuns == 2       \* runs of main()
MaxLen == 3        \* characters of a label handed to is_in_stock directly

----------------------------------------------------------------------------
(* Python values *)

None == << "<None>" >>

Truthy(s) == s # None /\ s # << >>

Or(a, b) == IF Truthy(a) THEN a ELSE b

\* dict.get(key, default)
Get(d, key, default) == IF key \in DOMAIN d THEN d[key] ELSE default

\* the characters str.strip() removes: those for which str.isspace() holds
Whitespace ==
    { "\t", "\n", "u000B", "u000C", "u000D", "u001C", "u001D", "u001E",
      "u001F", " ", "u0085", "u00A0", "u1680", "u2000", "u2001", "u2002",
      "u2003", "u2004", "u2005", "u2006", "u2007", "u2008", "u2009", "u200A",
      "u2028", "u2029", "u202F", "u205F", "u3000" }

\* the characters c with c.lower() # c among those modelled (ASCII, Latin-1,
\* the full-width Latin letters), and what str.lower() makes of each; capital
\* sigma is lowered by Lower
UpperCase ==
    << "A", "B", "C", "D", "E", "F", "G", "H", "I", "J", "K", "L", "M", "N",
       "O", "P", "Q", "R", "S", "T", "U", "V", "W", "X", "Y", "Z", "u00C0",
       "u00C1", "u00C2", "u00C3", "u00C4", "u00C5", "u00C6", "u00C7",
       "u00C8", "u00C9", "u00CA", "u00CB", "u00CC", "u00CD", "u00CE",
       "u00CF", "u00D0", "u00D1", "u00D2", "u00D3", "u00D4", "u00D5",
       "u00D6", "u00D8", "u00D9", "u00DA", "u00DB", "u00DC", "u00DD",
       "u00DE", "uFF21", "uFF22", "uFF23", "uFF24", "uFF25", "uFF26",
       "uFF27", "uFF28", "uFF29", "uFF2A", "uFF2B", "uFF2C", "uFF2D",
       "uFF2E", "uFF2F", "uFF30", "uFF31", "uFF32", "uFF33", "uFF34",
       "uFF35", "uFF36", "uFF37", "uFF38", "uFF39", "uFF3A" >>

LowerCase ==
    << "a", "b", "c", "d", "e", "f", "g", "h", "i", "j", "k", "l", "m", "n",
       "o", "p", "q", "r", "s", "t", "u", "v", "w", "x", "y", "z", "u00E0",
       "u00E1", "u00E2", "u00E3", "u00E4", "u00E5", "u00E6", "u00E7",
       "u00E8", "u00E9", "u00EA", "u00EB", "u00EC", "u00ED", "u00EE",
       "u00EF", "u00F0", "u00F1", "u00F2", "u00F3", "u00F4", "u00F5",
       "u00F6", "u00F8", "u00F9", "u00FA", "u00FB", "u00FC", "u00FD",
       "u00FE", "uFF41", "uFF42", "uFF43", "uFF44", "uFF45", "uFF46",
       "uFF47", "uFF48", "uFF49", "uFF4A", "uFF4B", "uFF4C", "uFF4D",
       "uFF4E", "uFF4F", "uFF50", "uFF51", "uFF52", "uFF53", "uFF54",
       "uFF55", "uFF56", "uFF57", "uFF58", "uFF59", "uFF5A" >>

LowerMap ==
    [ c \in { UpperCase[i] : i \in 1..Len(UpperCase) } |->
        LowerCase[CHOOSE i \in 1..Len(UpperCase) : UpperCase[i] = c] ]

\* the cased characters among those modelled
Cased ==
    { "A", "B", "C", "D", "E", "F", "G", "H", "I", "J", "K", "L", "M", "N",
      "O", "P", "Q", "R", "S", "T", "U", "V", "W", "X", "Y", "Z", "a", "b",
      "c", "d", "e", "f", "g", "h", "i", "j", "k", "l", "m", "n", "o", "p",
      "q", "r", "s", "t", "u", "v", "w", "x", "y", "z", "u00AA", "u00B5",
      "u00BA", "u00C0", "u00C1", "u00C2", "u00C3", "u00C4", "u00C5", "u00C6",
      "u00C7", "u00C8", "u00C9", "u00CA", "u00CB", "u00CC", "u00CD", "u00CE",
      "u00CF", "u00D0", "u00D1", "u00D2", "u00D3", "u00D4", "u00D5", "u00D6",
      "u00D8", "u00D9", "u00DA", "u00DB", "u00DC", "u00DD", "u00DE", "u00DF",
      "u00E0", "u00E1", "u00E2", "u00E3", "u00E4", "u00E5", "u00E6", "u00E7",
      "u00E8", "u00E9", "u00EA", "u00EB", "u00EC", "u00ED", "u00EE", "u00EF",
      "u00F0", "u00F1", "u00F2", "u00F3", "u00F4", "u00F5", "u00F6", "u00F8",
      "u00F9", "u00FA", "u00FB", "u00FC", "u00FD", "u00FE", "u00FF", "u03A3",
      "u03C2", "u03C3", "uFF21", "uFF22", "uFF23", "uFF24", "uFF25", "uFF26",
      "uFF27", "uFF28", "uFF29", "uFF2A", "uFF2B", "uFF2C", "uFF2D", "uFF2E",
      "uFF2F", "uFF30", "uFF31", "uFF32", "uFF33", "uFF34", "uFF35", "uFF36",
      "uFF37", "uFF38", "uFF39", "uFF3A", "uFF41", "uFF42", "uFF43", "uFF44",
      "uFF45", "uFF46", "uFF47", "uFF48", "uFF49", "uFF4A", "uFF4B", "uFF4C",
      "uFF4D", "uFF4E", "uFF4F", "uFF50", "uFF51", "uFF52", "uFF53", "uFF54",
      "uFF55", "uFF56", "uFF57", "uFF58", "uFF59", "uFF5A" }

\* the case-ignorable characters among those modelled ("u0060" is the grave
\* accent, which a TLA+ string cannot hold)
CaseIgnorable ==
    { "'", ".", ":", "^", "u0060", "u00A8", "u00AD", "u00AF", "u00B4", "u00B7",
      "u00B8", "u0301", "u2019", "u30FC" }

\* str.lower() of a character whose lower case does not depend on its neighbours
LowerChar(c) == IF c \in DOMAIN LowerMap THEN LowerMap[c] ELSE c

\* the final-sigma context of str.lower(): the nearest character before s[i]
\* that is not case-ignorable exists and is cased, and the nearest one after it
\* that is not case-ignorable, if any, is not cased
FinalSigma(s, i) ==
    LET before == { j \in 1..(i - 1) : s[j] \notin CaseIgnorable }
        after == { j \in (i + 1)..Len(s) : s[j] \notin CaseIgnorable }
    IN  /\ before # {}
        /\ s[CHOOSE j \in before : \A k \in before : k <= j] \in Cased
        /\ \/ after = {}
           \/ s[CHOOSE j \in after : \A k \in after : j <= k] \notin Cased

\* str.lower(): capital sigma (U+03A3) becomes final sigma (U+03C2) in the
\* final-sigma context and small sigma (U+03C3) elsewhere
Lower(s) ==
    [ i \in 1..Len(s) |->
        IF s[i] = "u03A3"
        THEN IF FinalSigma(s, i) THEN "u03C2" ELSE "u03C3"
        ELSE LowerChar(s[i]) ]

RECURSIVE LStrip(_)
LStrip(s) == IF s # << >> /\ Head(s) \in Whitespace THEN LStrip(Tail(s)) ELSE s

RECURSIVE RStrip(_)
RStrip(s) ==
    IF s # << >> /\ s[Len(s)] \in Whitespace
    THEN RStrip(SubSeq(s, 1, Len(s) - 1))
    ELSE s

\* str.strip()
Strip(s) == RStrip(LStrip(s))

\* the Python expression "p in text" on strings
Contains(p, text) ==
    \E i \in 0..(Len(text) - Len(p)) : SubSeq(text, i + 1, i + Len(p)) = p

----------------------------------------------------------------------------
(* is_in_stock *)

DefaultSoldOutPatterns ==
    << << "s", "o", "l", "d", " ", "o", "u", "t" >>,
       << "u58F2", "u308A", "u5207", "u308C" >>,
       << "u6B20", "u54C1" >> >>

DefaultInStockPatterns ==
    << << "a", "d", "d", " ", "t", "o", " ", "c", "a", "r", "t" >>,
       << "u30AB", "u30FC", "u30C8", "u306B", "u5165", "u308C", "u308B" >>,
       << "u5728", "u5EAB", "u3042", "u308A" >>,
       << "u5728", "u5EAB" >> >>

\* "for p in patterns: if p in text: return ..." reaches its return
AnyIn(patterns, text) == \E i \in 1..Len(patterns) : Contains(patterns[i], text)

LowerAll(patterns) == [ i \in 1..Len(patterns) |-> Lower(patterns[i]) ]

\* the default patterns, lowered
DefaultSoldOutLowered == LowerAll(DefaultSoldOutPatterns)
DefaultInStockLowered == LowerAll(DefaultInStockPatterns)

\* line 167: [p.lower() for p in cfg.get("sold_out_patterns", [...])]
sold_out_patterns_of(c) ==
    IF "sold_out_patterns" \in DOMAIN c
    THEN LowerAll(c["sold_out_patterns"]) ELSE DefaultSoldOutLowered

\* line 168: [p.lower() for p in cfg.get("in_stock_patterns", [...])]
in_stock_patterns_of(c) ==
    IF "in_stock_patterns" \in DOMAIN c
    THEN LowerAll(c["in_stock_patterns"]) ELSE DefaultInStockLowered

\* is_in_stock with the two pattern loops in the other order
is_in_stock_sold_first(item, c) ==
    LET text == Lower(Or(item.stock_text, << >>))
        sold_out_patterns == sold_out_patterns_of(c)
        in_stock_patterns == in_stock_patterns_of(c)
    IN  IF AnyIn(sold_out_patterns, text) THEN FALSE
        ELSE IF AnyIn(in_stock_patterns, text) THEN TRUE
        ELSE IF Strip(text) = << >> THEN Get(c, "assume_in_stock_if_no_label", FALSE)
        ELSE FALSE

\* is_in_stock with line 176 reading text == ""
is_in_stock_no_strip(item, c) ==
    LET text == Lower(Or(item.stock_text, << >>))
        sold_out_patterns == sold_out_patterns_of(c)
        in_stock_patterns == in_stock_patterns_of(c)
    IN  IF AnyIn(in_stock_patterns, text) THEN TRUE
        ELSE IF AnyIn(sold_out_patterns, text) THEN FALSE
        ELSE IF text = << >> THEN Get(c, "assume_in_stock_if_no_label", FALSE)
        ELSE FALSE

is_in_stock(item, c) ==
    LET text == Lower(Or(item.stock_text, << >>))
        sold_out_patterns == sold_out_patterns_of(c)
        in_stock_patterns == in_stock_patterns_of(c)
    IN  IF AnyIn(in_stock_patterns, text) THEN TRUE
        ELSE IF AnyIn(sold_out_patterns, text) THEN FALSE
        ELSE IF Strip(text) = << >> THEN Get(c, "assume_in_stock_if_no_label", FALSE)
        ELSE FALSE

----------------------------------------------------------------------------
(* The page extractors.  A page is a sequence of elements; an element holds *)
(* what each field read returns and which read, if any, raises.             *)

Unknown == << "u", "n", "k", "n", "o", "w", "n" >>

\* the order in which both extractors read the fields of an element
FieldOrder(f) ==
    CASE f = "name" -> 1
      [] f = "url" -> 2
      [] f = "image" -> 3
      [] f = "stock" -> 4
      [] OTHER -> 5

\* get_text(strip=True) / inner_text().strip() of an optional sub-element
TextOf(s) == IF s = None THEN None ELSE Strip(s)

\* the locals name, url, image, stock_text after the try block of parse_with_bs4:
\* a read that raises leaves its local and the later ones at None
bs4_fields(el) ==
    LET k == FieldOrder(el.raises)
    IN  [ name |-> IF k > 1 THEN TextOf(el.name) ELSE None,
          url |-> IF k > 2 THEN el.url ELSE None,
          image |-> IF k > 3 THEN el.image ELSE None,
          stock_text |-> IF k > 4 THEN TextOf(el.stock) ELSE None ]

make_item(f) ==
    [ id |-> Or(f.url, f.name),
      name |-> Or(f.name, Unknown),
      url |-> f.url,
      image |-> f.image,
      stock_text |-> f.stock_text ]

RECURSIVE parse_with_bs4(_)
parse_with_bs4(page) ==
    IF page = << >> THEN << >>
    ELSE LET f == bs4_fields(Head(page))
         IN  IF ~Truthy(f.name) /\ ~Truthy(f.url)
             THEN parse_with_bs4(Tail(page))
             ELSE << make_item(f) >> \o parse_with_bs4(Tail(page))

RECURSIVE parse_with_playwright(_)
parse_with_playwright(page) ==
    IF page = << >> THEN << >>
    ELSE LET el == Head(page)
             f == [ name |-> TextOf(el.name), url |-> el.url, image |-> el.image,
                    stock_text |-> TextOf(el.stock) ]
         IN  IF el.raises # "none" \/ (~Truthy(f.name) /\ ~Truthy(f.url))
             THEN parse_with_playwright(Tail(page))
             ELSE << make_item(f) >> \o parse_with_playwright(Tail(page))

----------------------------------------------------------------------------
(* The state store: files are sequences of tokens, written one at a time.  *)

NoTime == 0

NoRecord ==
    [ name |-> None, url |-> None, image |-> None, stock_text |-> None,
      in_stock |-> FALSE, last_seen |-> NoTime ]

Token(t, id, rec, ts) == [ t |-> t, id |-> id, rec |-> rec, ts |-> ts ]

\* the content of a path that does not exist
NoFile == << Token("<no file>", None, NoRecord, NoTime) >>

DefaultStatePath == << "state.json" >>

\* save_state writing the state file itself
tmp_path_in_place(path) == path

\* save_state: tmp = path + ".tmp"
tmp_path(path) == path \o << ".tmp" >>

\* the keys of a dict in insertion order when they are assigned in the order of
\* q: a key assigned again keeps its place
RECURSIVE FirstOccurrences(_)
FirstOccurrences(q) ==
    IF q = << >> THEN << >>
    ELSE LET r == FirstOccurrences(SubSeq(q, 1, Len(q) - 1))
         IN  IF \E i \in 1..Len(r) : r[i] = q[Len(q)] THEN r ELSE Append(r, q[Len(q)])

\* the dict {}: "keys()" holds list(d.keys()) of a dict d
EmptyDict == "keys()" :> << >>

\* d[key] = value: a new key goes last, a key assigned again keeps its place
SetKey(d, key, value) ==
    (key :> value)
    @@ ("keys()" :> IF key \in DOMAIN d THEN d["keys()"] ELSE Append(d["keys()"], key))
    @@ d

\* the dict {"items": m}, m holding its keys in the order keys: "items" is the
\* mapping and "items.keys()" is list(m.keys())
ItemsDict(m, keys) == ("items.keys()" :> keys) @@ SetKey(EmptyDict, "items", m)

RECURSIVE Flatten(_)
Flatten(qs) == IF qs = << >> THEN << >> ELSE Head(qs) \o Flatten(Tail(qs))

\* json.dump(state, f, ...): the text written, token by token, the keys of the
\* state and of its items in insertion order.  The token "items" opens the
\* items, which hold the "item" tokens up to the next token of another kind
Dump(st) ==
    LET keys == st["keys()"]
        Member(k) ==
            IF k = "items"
            THEN << Token("items", None, NoRecord, NoTime) >>
                 \o [ i \in 1..Len(st["items.keys()"]) |->
                        Token("item", st["items.keys()"][i],
                              st["items"][st["items.keys()"][i]], NoTime) ]
            ELSE << Token(k, None, NoRecord, st[k]) >>
    IN  << Token("{", None, NoRecord, NoTime) >>
        \o Flatten([ i \in 1..Len(keys) |-> Member(keys[i]) ])
        \o << Token("}", None, NoRecord, NoTime) >>

\* json.load succeeds on a complete document only
Parses(text) ==
    /\ Len(text) >= 2
    /\ text[1].t = "{"
    /\ text[Len(text)].t = "}"
    /\ \A i \in 2..(Len(text) - 1) :
          /\ text[i].t \in { "items", "item", "last_checked" }
          /\ text[i].t = "item" => text[i - 1].t \in { "items", "item" }

\* json.load(f) of a complete document: the keys in the order of the text, and
\* of a key that comes twice the place of the first and the value of the last
Parse(text) ==
    LET Last(S) == CHOOSE i \in S : \A j \in S : j <= i
        IsKey(tok) == tok.t \in { "items", "last_checked" }
        keyToks == SelectSeq(text, IsKey)
        keys == FirstOccurrences([ i \in 1..Len(keyToks) |-> keyToks[i].t ])
        ts == { i \in 1..Len(text) : text[i].t = "last_checked" }
        opens == { i \in 1..Len(text) : text[i].t = "items" }
        body == IF opens = {} THEN {}
                ELSE { i \in (Last(opens) + 1)..Len(text) :
                         \A j \in (Last(opens) + 1)..i : text[j].t = "item" }
        ids == [ k \in 1..Cardinality(body) |-> text[Last(opens) + k].id ]
        its == [ id \in { text[i].id : i \in body } |->
                   text[Last({ i \in body : text[i].id = id })].rec ]
    IN  ("keys()" :> keys)
        @@ ( IF opens = {} THEN << >>
             ELSE ("items" :> its) @@ ("items.keys()" :> FirstOccurrences(ids)) )
        @@ ( IF ts = {} THEN << >> ELSE "last_checked" :> text[Last(ts)].ts )

\* load_state returning the items of the document only
load_state_items_only(path) ==
    IF fs[path] = NoFile THEN ItemsDict(<< >>, << >>)
    ELSE ItemsDict(Get(Parse(fs[path]), "items", << >>),
                   Get(Parse(fs[path]), "items.keys()", << >>))

\* load_state: the dict returned (when it returns)
load_state(path) ==
    IF fs[path] = NoFile THEN ItemsDict(<< >>, << >>) ELSE Parse(fs[path])

\* load_state raises (json.JSONDecodeError)
load_state_raises(path) == fs[path] # NoFile /\ ~Parses(fs[path])

----------------------------------------------------------------------------
(* main: the notification policy and the embed *)

Restock == << "restock" >>
NewInStock == << "new & in stock" >>
NewItem == << "new item" >>

\* prev_items.get(item_id): << >> when there is none, << record >> otherwise
prev_of(prev, item_id) ==
    IF item_id \in DOMAIN prev THEN << prev[item_id] >> ELSE << >>

\* lines 238-241 with the two tests in the other order
reason_for_new_first(prev, in_stock, c) ==
    IF prev # << >>
    THEN IF prev[1].in_stock = FALSE /\ in_stock THEN Restock ELSE None
    ELSE IF Get(c, "notify_new", FALSE) THEN NewItem
    ELSE IF in_stock /\ Get(c, "notify_new_in_stock", TRUE) THEN NewInStock
    ELSE None

\* the value of "reason" after lines 233-241
reason_for(prev, in_stock, c) ==
    IF prev # << >>
    THEN IF prev[1].in_stock = FALSE /\ in_stock THEN Restock ELSE None
    ELSE IF in_stock /\ Get(c, "notify_new_in_stock", TRUE) THEN NewInStock
    ELSE IF Get(c, "notify_new", FALSE) THEN NewItem
    ELSE None

\* lines 181-198; datetime.utcnow() reads the time of the run, and the "image"
\* key is set for a truthy image only
build_discord_embed(item, c, reason) ==
    LET embed == [ title |-> Or(item.name, << "New item" >>),
                   url |-> Or(item.url, Get(c, "url", None)),
                   description |-> reason,
                   timestamp |-> now,
                   fields |-> << [ name |-> << "u691Cu51FAu65E5u6642" >>, value |-> now,
                                   inline |-> TRUE ],
                                 [ name |-> << "u72B6u614B" >>, value |-> reason,
                                   inline |-> TRUE ] >> ]
    IN  IF Truthy(item.image) THEN embed @@ ("image" :> [ url |-> item.image ]) ELSE embed

state_path == Get(cfg, "state_file", DefaultStatePath)

\* line 221
webhook == Or(Get(cfg, "discord_webhook_url", None), Get(env, "DISCORD_WEBHOOK_URL", None))

----------------------------------------------------------------------------
(* Inputs *)

NameA == << "A" >>
NameB == << "B" >>
LabelInStock == << "u5728", "u5EAB", "u3042", "u308A" >>
LabelSoldOut == << "u6B20", "u54C1" >>
HookUrl == << "https://discord/hook" >>
PageUrl == << "https://shop/list" >>
ImageB == << "https://shop/b.png" >>

\* item A shows an in-stock or a sold-out label and no image, item B shows an
\* image and no label
Elements ==
    { [ name |-> NameA, url |-> None, image |-> None, stock |-> l, raises |-> "none" ] :
        l \in { LabelInStock, LabelSoldOut } }
    \cup { [ name |-> NameB, url |-> None, image |-> ImageB, stock |-> None,
             raises |-> "none" ] }

RECURSIVE SeqsUpTo(_, _)
SeqsUpTo(S, n) ==
    IF n = 0 THEN { << >> }
    ELSE LET shorter == SeqsUpTo(S, n - 1)
         IN  shorter \cup { Append(q, x) : q \in { r \in shorter : Len(r) = n - 1 }, x \in S }

Pages == SeqsUpTo(Elements, MaxItems)

Opt(key, values) == { << >> } \cup { key :> v : v \in values }

InConfig == "discord_webhook_url" :> HookUrl
InEnv == "DISCORD_WEBHOOK_URL" :> HookUrl

\* every value of notify_new_in_stock and notify_new next to its default, the
\* webhook in config.json or left to the environment, both extractors
Configs ==
    { ("url" :> PageUrl) @@ c :
        c \in { InConfig,
                InConfig @@ ("assume_in_stock_if_no_label" :> TRUE),
                InConfig @@ ("notify_new" :> TRUE),
                InConfig @@ ("notify_new_in_stock" :> FALSE) @@ ("notify_new" :> TRUE),
                ("notify_new_in_stock" :> FALSE) @@ ("use_requests" :> TRUE),
                ("discord_webhook_url" :> << >>) @@ ("use_requests" :> TRUE) } }

\* os.environ as a run may find it: it matters only when config.json gives no webhook
Environments ==
    IF Truthy(Get(cfg, "discord_webhook_url", None)) THEN { << >> } ELSE { << >>, InEnv }

----------------------------------------------------------------------------
(* main *)

\* the verdicts of the extracted records of one identity, in extraction order
VerdictsOf(id) ==
    LET Same(it) == Or(it.id, it.name) = id
        recs == SelectSeq(items, Same)
    IN  [ k \in 1..Len(recs) |-> is_in_stock(recs[k], cfg) ]

\* what is known of a decision: the identity it is about and the verdicts of the
\* records extracted for that identity in the run that made it
Decision(it) ==
    [ id |-> Or(it.id, it.name), verdicts |-> VerdictsOf(Or(it.id, it.name)) ]

Decisions == { Decision(notifications[i].item) : i \in 1..Len(notifications) }

\* the identities recorded in stock in the snapshot this run found
RecordedInStock ==
    IF diskAtStart = NoFile \/ ~Parses(diskAtStart) THEN {}
    ELSE { id \in DOMAIN Get(Parse(diskAtStart), "items", << >>) :
              Parse(diskAtStart)["items"][id].in_stock }

\* the identities main gives the extracted records (line 229)
ExtractedIds == { Or(items[i].id, items[i].name) : i \in 1..Len(items) }

\* the decisions this run delivered
Delivered == { attempts[i].decision : i \in { j \in 1..Len(attempts) : attempts[j].ok } }

NoDecisions == [ prev |-> {}, cur |-> {} ]

Idle ==
    /\ state = ItemsDict(<< >>, << >>)
    /\ prev_items = << >>
    /\ items = << >>
    /\ idx = 0
    /\ new_state_items = << >>
    /\ notifications = << >>
    /\ reasons = << >>
    /\ sent = 0
    /\ attempts = << >>
    /\ fetched = FALSE
    /\ saving = FALSE

Init ==
    /\ cfg \in Configs
    /\ env = << >>
    /\ fs = [ p \in { DefaultStatePath, tmp_path(DefaultStatePath) } |-> NoFile ]
    /\ pc = "idle"
    /\ now = 0
    /\ Idle
    /\ diskAtStart = NoFile
    /\ lastCompleted = << >>
    /\ decided = NoDecisions
    /\ vanished = {}
    /\ outcome = "idle"
    /\ c_item = [ stock_text |-> None ]
    /\ c_result = << >>
    /\ p_page = << >> /\ p_bs4 = << >> /\ p_playwright = << >>
    /\ s_loaded = << >>

\* lines 202-205: load_config, load_state; a new process starts with fresh locals
StartRun ==
    /\ pc \in { "idle", "done" }
    /\ now < MaxRuns
    /\ now' = now + 1
    /\ env' \in Environments
    /\ diskAtStart' = fs[state_path]
    /\ lastCompleted' = IF outcome = "completed" THEN << items >> ELSE << >>
    /\ decided' = [ prev |-> decided.cur \ Delivered, cur |-> {} ]
    /\ vanished' = IF outcome = "completed" THEN RecordedInStock \ ExtractedIds ELSE {}
    /\ items' = << >> /\ idx' = 0 /\ new_state_items' = << >>
    /\ notifications' = << >> /\ reasons' = << >> /\ sent' = 0 /\ attempts' = << >>
    /\ fetched' = FALSE /\ saving' = FALSE
    /\ IF load_state_raises(state_path)
       THEN /\ pc' = "done" /\ outcome' = "load_error"
            /\ state' = ItemsDict(<< >>, << >>) /\ prev_items' = << >>
       ELSE /\ pc' = "fetch" /\ outcome' = "running"
            /\ state' = load_state(state_path)
            /\ prev_items' = Get(load_state(state_path), "items", << >>)
    /\ UNCHANGED << cfg, fs, c_item, c_result,
                    p_page, p_bs4, p_playwright, s_loaded >>

\* lines 207-214: the page is fetched and parsed
Fetch ==
    /\ pc = "fetch"
    /\ \E page \in Pages :
         items' = IF Get(cfg, "use_requests", FALSE)
                  THEN parse_with_bs4(page)
                  ELSE parse_with_playwright(page)
    /\ fetched' = TRUE
    /\ pc' = "webhook"
    /\ UNCHANGED << cfg, env, fs, now, state, prev_items, idx, new_state_items,
                    notifications, reasons, sent, attempts, saving, diskAtStart,
                    lastCompleted, decided, vanished, outcome, c_item, c_result,
                    p_page, p_bs4, p_playwright, s_loaded >>

\* main going on with the items it has when fetching or parsing raised
on_extract_error_continue == "webhook"

\* lines 215-217: return
on_extract_error == "done"

\* lines 207-217: the fetch or the parse raises
FetchFail ==
    /\ pc = "fetch"
    /\ fetched' = TRUE
    /\ outcome' = "extract_error"
    /\ pc' = on_extract_error
    /\ UNCHANGED << cfg, env, fs, now, state, prev_items, items, idx, new_state_items,
                    notifications, reasons, sent, attempts, saving, diskAtStart,
                    lastCompleted, decided, vanished, c_item, c_result,
                    p_page, p_bs4, p_playwright, s_loaded >>

\* new_state_items starting from the entries of the snapshot that was loaded
new_state_items_carried(prev) == prev

\* line 226: new_state_items = {}
new_state_items_fresh(prev) == << >>

\* lines 221-227
CheckWebhook ==
    /\ pc = "webhook"
    /\ IF ~Truthy(webhook)
       THEN /\ pc' = "done"
            /\ outcome' = IF outcome = "running" THEN "no_webhook" ELSE outcome
            /\ UNCHANGED << idx, new_state_items, notifications >>
       ELSE /\ pc' = "loop"
            /\ idx' = 1
            /\ new_state_items' = new_state_items_fresh(prev_items)
            /\ notifications' = << >>
            /\ UNCHANGED outcome
    /\ UNCHANGED << cfg, env, fs, now, state, prev_items, items, reasons, sent, attempts,
                    fetched, saving, diskAtStart, lastCompleted, decided, vanished, c_item, c_result,
                    p_page, p_bs4, p_playwright, s_loaded >>

\* the prior record looked up among the records this run has written as well
prior_records_with_run(prev, new) == new @@ prev

\* line 231: prev = prev_items.get(item_id), the mapping loaded at line 205
prior_records(prev, new) == prev

\* lines 228-254: one iteration of "for it in items"
ProcessItem ==
    /\ pc = "loop"
    /\ idx <= Len(items)
    /\ LET it == items[idx]
           item_id == Or(it.id, it.name)
           in_stock == is_in_stock(it, cfg)
           prev == prev_of(prior_records(prev_items, new_state_items), item_id)
           reason == reason_for(prev, in_stock, cfg)
           rec == [ name |-> it.name, url |-> it.url, image |-> it.image,
                    stock_text |-> it.stock_text, in_stock |-> in_stock,
                    last_seen |-> now ]
       IN  /\ new_state_items' = (item_id :> rec) @@ new_state_items
           /\ reasons' = Append(reasons, reason)
           /\ notifications' =
                IF Truthy(reason)
                THEN Append(notifications,
                            [ item |-> it, embed |-> build_discord_embed(it, cfg, reason) ])
                ELSE notifications
    /\ idx' = idx + 1
    /\ UNCHANGED << cfg, env, fs, pc, now, state, prev_items, items, sent, attempts,
                    fetched, saving, diskAtStart, lastCompleted, decided, vanished, outcome,
                    c_item, c_result,
                    p_page, p_bs4, p_playwright, s_loaded >>

\* main delivering before it saves
after_loop_send_first == "send"

\* lines 256-258: the state is assembled and save_state is called
after_loop == "save_open"

\* state["items"] updated with the new records, the old entries staying
state_items_updated(old, new) == new @@ old

\* line 256: state["items"] = new_state_items
state_items(old, new) == new

\* list(m.keys()) of the dict state["items"] is made: new_state_items received
\* its keys (line 243) in the order of the extracted records; a key that was
\* assigned otherwise comes after them, in the order it had
items_keys(m, old_keys) ==
    LET InM(id) == id \in DOMAIN m
    IN  SelectSeq(FirstOccurrences([ i \in 1..Len(items) |-> Or(items[i].id, items[i].name) ]
                                   \o old_keys), InM)

\* lines 256-257: the loop has ended
FinishLoop ==
    /\ pc = "loop"
    /\ idx > Len(items)
    /\ state' = LET m == state_items(prev_items, new_state_items)
                    keys == items_keys(m, Get(state, "items.keys()", << >>))
                IN  SetKey(("items.keys()" :> keys) @@ SetKey(state, "items", m),
                           "last_checked", now)
    /\ pc' = after_loop
    /\ sent' = 1
    /\ UNCHANGED << cfg, env, fs, now, prev_items, items, idx, new_state_items,
                    notifications, reasons, attempts, fetched, saving, diskAtStart,
                    lastCompleted, decided, vanished, outcome, c_item, c_result,
                    p_page, p_bs4, p_playwright, s_loaded >>

\* line 37: open(tmp, "w") creates or truncates the temporary file
SaveOpen ==
    /\ pc = "save_open"
    /\ saving' = TRUE
    /\ fs' = [ fs EXCEPT ![tmp_path(state_path)] = << >> ]
    /\ pc' = "save_write"
    /\ UNCHANGED << cfg, env, now, state, prev_items, items, idx, new_state_items,
                    notifications, reasons, sent, attempts, fetched, diskAtStart,
                    lastCompleted, decided, vanished, outcome, c_item, c_result,
                    p_page, p_bs4, p_playwright, s_loaded >>

\* line 38: json.dump writes the next piece of the document; the file is closed
\* after the last one
SaveWrite ==
    /\ pc = "save_write"
    /\ LET tmp == tmp_path(state_path)
           text == Dump(state)
           n == Len(fs[tmp]) + 1
       IN  /\ fs' = [ fs EXCEPT ![tmp] = Append(@, text[n]) ]
           /\ pc' = IF n = Len(text) THEN "save_replace" ELSE "save_write"
    /\ UNCHANGED << cfg, env, now, state, prev_items, items, idx, new_state_items,
                    notifications, reasons, sent, attempts, fetched, saving,
                    diskAtStart, lastCompleted, decided, vanished, outcome, c_item, c_result,
                    p_page, p_bs4, p_playwright, s_loaded >>

\* line 39: os.replace(tmp, path)
SaveReplace ==
    /\ pc = "save_replace"
    /\ LET tmp == tmp_path(state_path)
           text == fs[tmp]
       IN  fs' = [ p \in DOMAIN fs |->
                     IF p = state_path THEN text
                     ELSE IF p = tmp THEN NoFile
                     ELSE fs[p] ]
    /\ pc' = "send"
    /\ decided' = [ decided EXCEPT !.cur = Decisions ]
    /\ UNCHANGED << cfg, env, now, state, prev_items, items, idx, new_state_items,
                    notifications, reasons, sent, attempts, fetched, saving,
                    diskAtStart, lastCompleted, vanished, outcome, c_item, c_result,
                    p_page, p_bs4, p_playwright, s_loaded >>

\* main catching the error of save_state and going on to the deliveries
on_save_error_deliver == "send"

\* line 258: save_state is called outside any try, its error leaves main
on_save_error == "done"

\* lines 37-39 raise (OSError); when this ends the process its memory is gone
SaveFail ==
    /\ pc \in { "save_open", "save_write", "save_replace" }
    /\ saving' = TRUE
    /\ pc' = on_save_error
    /\ outcome' = IF outcome = "running" THEN "save_error" ELSE outcome
    /\ IF on_save_error = "done"
       THEN /\ prev_items' = << >> /\ items' = << >> /\ idx' = 0
            /\ new_state_items' = << >>
            /\ notifications' = << >> /\ reasons' = << >> /\ sent' = 0
       ELSE UNCHANGED << prev_items, items, idx, new_state_items, notifications,
                         reasons, sent >>
    /\ UNCHANGED << cfg, env, fs, now, state, attempts, fetched, diskAtStart, lastCompleted, decided, vanished,
                    c_item, c_result,
                    p_page, p_bs4, p_playwright, s_loaded >>

\* a failed delivery ending the loop "for it, embed in notifications"
next_after_failure_break(i, n) == n + 1

\* lines 267-268: the exception is logged and the loop goes on
next_after_failure(i, n) == i + 1

\* lines 262-266: the webhook answers with success
SendOk ==
    /\ pc = "send"
    /\ sent <= Len(notifications)
    /\ attempts' = Append(attempts, [ embed |-> notifications[sent].embed, ok |-> TRUE,
                                    decision |-> Decision(notifications[sent].item) ])
    /\ sent' = sent + 1
    /\ UNCHANGED << cfg, env, fs, pc, now, state, prev_items, items, idx, new_state_items,
                    notifications, reasons, fetched, saving, diskAtStart, lastCompleted, decided, vanished, outcome, c_item, c_result,
                    p_page, p_bs4, p_playwright, s_loaded >>

\* lines 262-268: requests.post or raise_for_status raises
SendFail ==
    /\ pc = "send"
    /\ sent <= Len(notifications)
    /\ attempts' = Append(attempts, [ embed |-> notifications[sent].embed, ok |-> FALSE,
                                    decision |-> Decision(notifications[sent].item) ])
    /\ sent' = next_after_failure(sent, Len(notifications))
    /\ UNCHANGED << cfg, env, fs, pc, now, state, prev_items, items, idx, new_state_items,
                    notifications, reasons, fetched, saving, diskAtStart, lastCompleted, decided, vanished, outcome, c_item, c_result,
                    p_page, p_bs4, p_playwright, s_loaded >>

\* line 270: main returns
Finish ==
    /\ pc = "send"
    /\ sent > Len(notifications)
    /\ pc' = "done"
    /\ outcome' = IF outcome = "running" THEN "completed" ELSE outcome
    /\ UNCHANGED << cfg, env, fs, now, state, prev_items, items, idx, new_state_items,
                    notifications, reasons, sent, attempts, fetched, saving,
                    diskAtStart, lastCompleted, decided, vanished, c_item, c_result,
                    p_page, p_bs4, p_playwright, s_loaded >>

\* the process is killed at any point of main: its memory is gone, the files stay
Crash ==
    /\ pc \notin { "idle", "done", "classify", "classified" }
    /\ pc' = "done"
    /\ outcome' = "crashed"
    /\ prev_items' = << >> /\ items' = << >> /\ idx' = 0 /\ new_state_items' = << >>
    /\ notifications' = << >> /\ reasons' = << >> /\ sent' = 0
    /\ UNCHANGED << cfg, env, fs, now, state, attempts, fetched, saving, diskAtStart, lastCompleted, decided, vanished, c_item, c_result,
                    p_page, p_bs4, p_playwright, s_loaded >>

Next ==
    \/ StartRun
    \/ Fetch
    \/ FetchFail
    \/ CheckWebhook
    \/ ProcessItem
    \/ FinishLoop
    \/ SaveOpen
    \/ SaveWrite
    \/ SaveReplace
    \/ SaveFail
    \/ SendOk
    \/ SendFail
    \/ Finish
    \/ Crash

Spec == Init /\ [][Next]_vars

----------------------------------------------------------------------------
(* main run again after an earlier run: the machine starts as a run at time *)
(* t that found no state file, extracted item A in stock, and completed     *)
(* with every delivery made, has left it.                                   *)

EarlierPage ==
    << [ name |-> NameA, url |-> None, image |-> None, stock |-> LabelInStock,
         raises |-> "none" ] >>

AfterRun(t) ==
    /\ env = IF Truthy(Get(cfg, "discord_webhook_url", None)) THEN << >> ELSE InEnv
    /\ now = t
    /\ pc = "done"
    /\ outcome = "completed"
    /\ prev_items = << >>
    /\ diskAtStart = NoFile
    /\ items = IF Get(cfg, "use_requests", FALSE)
               THEN parse_with_bs4(EarlierPage)
               ELSE parse_with_playwright(EarlierPage)
    /\ idx = Len(items) + 1
    /\ new_state_items =
         [ id \in ExtractedIds |->
             LET it == items[CHOOSE i \in 1..Len(items) : Or(items[i].id, items[i].name) = id]
             IN  [ name |-> it.name, url |-> it.url, image |-> it.image,
                   stock_text |-> it.stock_text, in_stock |-> is_in_stock(it, cfg),
                   last_seen |-> t ] ]
    /\ reasons = [ i \in 1..Len(items) |->
                     reason_for(<< >>, is_in_stock(items[i], cfg), cfg) ]
    /\ notifications =
         LET decidedAt == SelectSeq([ i \in 1..Len(items) |-> i ],
                                    LAMBDA i : Truthy(reasons[i]))
         IN  [ k \in 1..Len(decidedAt) |->
                 [ item |-> items[decidedAt[k]],
                   embed |-> build_discord_embed(items[decidedAt[k]], cfg,
                                                 reasons[decidedAt[k]]) ] ]
    /\ sent = Len(notifications) + 1
    /\ attempts = [ k \in 1..Len(notifications) |->
                      [ embed |-> notifications[k].embed, ok |-> TRUE,
                        decision |-> Decision(notifications[k].item) ] ]
    /\ state = SetKey(ItemsDict(new_state_items, items_keys(new_state_items, << >>)),
                      "last_checked", t)
    /\ fs = [ p \in { DefaultStatePath, tmp_path(DefaultStatePath) } |->
                IF p = DefaultStatePath THEN Dump(state) ELSE NoFile ]
    /\ fetched = TRUE
    /\ saving = TRUE
    /\ lastCompleted = << >>
    /\ decided = [ prev |-> {}, cur |-> Decisions ]
    /\ vanished = {}

InitAfterRun ==
    /\ cfg \in Configs
    /\ AfterRun(0)
    /\ c_item = [ stock_text |-> None ]
    /\ c_result = << >>
    /\ p_page = << >> /\ p_bs4 = << >> /\ p_playwright = << >>
    /\ s_loaded = << >>

SpecAfterRun == InitAfterRun /\ [][Next]_vars

----------------------------------------------------------------------------
(* is_in_stock on its own: every label up to MaxLen characters, under each *)
(* pattern configuration.                                                  *)

Alphabet ==
    { "u5728", "u5EAB", "u6B20", "u54C1", " ", "u3000", "X", "x", "B", ".", "u03A3" }

Labels == { None } \cup SeqsUpTo(Alphabet, MaxLen)

PatternConfigs ==
    { a @@ b @@ c :
        a \in Opt("in_stock_patterns", { << << "X", "u03A3" >>, << "u54C1" >> >> }),
        b \in Opt("sold_out_patterns", { << << "x" >>, << "u5EAB", " " >>, << "b" >> >> }),
        c \in Opt("assume_in_stock_if_no_label", { TRUE, FALSE }) }

ClassifyInit ==
    /\ cfg \in PatternConfigs
    /\ env = << >>
    /\ fs = [ p \in { DefaultStatePath, tmp_path(DefaultStatePath) } |-> NoFile ]
    /\ pc = "classify"
    /\ now = 0
    /\ Idle
    /\ diskAtStart = NoFile
    /\ lastCompleted = << >>
    /\ decided = NoDecisions
    /\ vanished = {}
    /\ outcome = "idle"
    /\ c_item \in { [ stock_text |-> l ] : l \in Labels }
    /\ c_result = << >>
    /\ p_page = << >> /\ p_bs4 = << >> /\ p_playwright = << >>
    /\ s_loaded = << >>

\* lines 165-178: is_in_stock(c_item, cfg) returns
Classify ==
    /\ pc = "classify"
    /\ c_result' = << is_in_stock(c_item, cfg) >>
    /\ pc' = "classified"
    /\ UNCHANGED << cfg, env, fs, now, state, prev_items, items, idx, new_state_items,
                    notifications, reasons, sent, attempts, fetched, saving,
                    diskAtStart, lastCompleted, decided, vanished, outcome, c_item,
                    p_page, p_bs4, p_playwright, s_loaded >>

ClassifyNext == Classify

SpecClassify == ClassifyInit /\ [][ClassifyNext]_vars

----------------------------------------------------------------------------
(* The two extractors on their own: every page of up to MaxItems elements, *)
(* each element with or without a name and a link, and with any one of its *)
(* field reads raising.                                                    *)

FieldReads == { "none", "name", "url", "image", "stock" }

\* a name element holding an ideographic space only
BlankName == << "u3000" >>

ParseElements ==
    [ name : { None, NameA, BlankName }, url : { None, PageUrl }, image : { None },
      stock : { LabelInStock }, raises : FieldReads ]

ParsePages == SeqsUpTo(ParseElements, MaxItems)

ParseInit ==
    /\ cfg = InConfig
    /\ env = << >>
    /\ fs = [ p \in { DefaultStatePath, tmp_path(DefaultStatePath) } |-> NoFile ]
    /\ pc = "parse"
    /\ now = 0
    /\ Idle
    /\ diskAtStart = NoFile
    /\ lastCompleted = << >>
    /\ decided = NoDecisions
    /\ vanished = {}
    /\ outcome = "idle"
    /\ c_item = [ stock_text |-> None ]
    /\ c_result = << >>
    /\ p_page \in ParsePages
    /\ p_bs4 = << >>
    /\ p_playwright = << >>
    /\ s_loaded = << >>

\* lines 74-109: parse_with_bs4 returns
ParseBs4 ==
    /\ pc = "parse"
    /\ p_bs4 = << >>
    /\ p_bs4' = << parse_with_bs4(p_page) >>
    /\ UNCHANGED << cfg, env, fs, pc, now, state, prev_items, items, idx,
                    new_state_items, notifications, reasons, sent, attempts, fetched,
                    saving, diskAtStart, lastCompleted, decided, vanished, outcome, c_item, c_result,
                    p_page, p_playwright, s_loaded >>

\* lines 112-162: parse_with_playwright returns
ParsePlaywright ==
    /\ pc = "parse"
    /\ p_playwright = << >>
    /\ p_playwright' = << parse_with_playwright(p_page) >>
    /\ UNCHANGED << cfg, env, fs, pc, now, state, prev_items, items, idx,
                    new_state_items, notifications, reasons, sent, attempts, fetched,
                    saving, diskAtStart, lastCompleted, decided, vanished, outcome, c_item, c_result,
                    p_page, p_bs4, s_loaded >>

ParseNext == ParseBs4 \/ ParsePlaywright

SpecParse == ParseInit /\ [][ParseNext]_vars

----------------------------------------------------------------------------
(* The state store on its own: save_state of a snapshot, as the steps main  *)
(* takes (pc = "send" is where save_state has returned), and load_state     *)
(* before and after it.                                                     *)

StoreIds == { NameA, PageUrl }

StoreRecords ==
    [ name : { NameA }, url : { None, PageUrl }, image : { None },
      stock_text : { None, LabelInStock }, in_stock : BOOLEAN, last_seen : { 1 } ]

\* the orders in which a dict can hold the keys S
KeyOrders(S) ==
    { q \in SeqsUpTo(S, Cardinality(S)) :
        Len(q) = Cardinality(S) /\ { q[i] : i \in 1..Len(q) } = S }

\* the dicts save_state is handed: the items with or without a last_checked,
\* which came after the items or, read from a file that had it so, before them
Snapshots ==
    LET Handed(m, keys) ==
            { ItemsDict(m, keys),
              SetKey(ItemsDict(m, keys), "last_checked", 1),
              ("items.keys()" :> keys)
                  @@ SetKey(SetKey(EmptyDict, "last_checked", 1), "items", m) }
    IN  UNION { UNION { Handed(m, keys) : keys \in KeyOrders(DOMAIN m) } :
                  m \in UNION { [ ids -> StoreRecords ] : ids \in SUBSET StoreIds } }

\* state files that were not written by save_state: {} without a key, a
\* last_checked that comes twice or before the items, items that come twice
HandMadeFiles ==
    LET open == Token("{", None, NoRecord, NoTime)
        close == Token("}", None, NoRecord, NoTime)
        its == Token("items", None, NoRecord, NoTime)
        a == Token("item", NameA, [ NoRecord EXCEPT !.name = NameA, !.last_seen = 1 ], NoTime)
        t(n) == Token("last_checked", None, NoRecord, n)
    IN  { << open, close >>,
          << open, its, a, t(1), t(2), close >>,
          << open, its, a, t(2), t(1), close >>,
          << open, t(1), its, a, close >>,
          << open, its, a, its, close >> }

StoreInit ==
    /\ cfg = << >>
    /\ env = << >>
    /\ fs \in { [ p \in { DefaultStatePath, tmp_path(DefaultStatePath) } |->
                    IF p = DefaultStatePath THEN f ELSE NoFile ] :
                 f \in { NoFile } \cup HandMadeFiles }
    /\ pc = "save_open"
    /\ now = 1
    /\ state \in Snapshots
    /\ prev_items = << >> /\ items = << >> /\ idx = 0 /\ new_state_items = << >>
    /\ notifications = << >> /\ reasons = << >> /\ sent = 0 /\ attempts = << >>
    /\ fetched = FALSE /\ saving = FALSE
    /\ diskAtStart = fs[DefaultStatePath]
    /\ lastCompleted = << >>
    /\ decided = NoDecisions
    /\ vanished = {}
    /\ outcome = "running"
    /\ c_item = [ stock_text |-> None ]
    /\ c_result = << >>
    /\ p_page = << >> /\ p_bs4 = << >> /\ p_playwright = << >>
    /\ s_loaded = << >>

\* lines 42-46: load_state(state_path) called before save_state or after it
\* has returned
LoadState ==
    /\ pc \in { "save_open", "send" }
    /\ s_loaded' =
         << [ at |-> pc,
              raised |-> load_state_raises(state_path),
              value |-> IF load_state_raises(state_path) THEN << >>
                        ELSE load_state(state_path) ] >>
    /\ UNCHANGED << cfg, env, fs, pc, now, state, prev_items, items, idx,
                    new_state_items, notifications, reasons, sent, attempts, fetched,
                    saving, diskAtStart, lastCompleted, decided, vanished, outcome, c_item, c_result,
                    p_page, p_bs4, p_playwright >>

StoreNext == SaveOpen \/ SaveWrite \/ SaveReplace \/ LoadState

SpecStore == StoreInit /\ [][StoreNext]_vars

----------------------------------------------------------------------------
(* Claims about is_in_stock, checked under SpecClassify *)

ConfiguredInStock == Get(cfg, "in_stock_patterns", DefaultInStockPatterns)
ConfiguredSoldOut == Get(cfg, "sold_out_patterns", DefaultSoldOutPatterns)
AssumeIfNoLabel == Get(cfg, "assume_in_stock_if_no_label", FALSE)

\* the label as written on the page contains one of the patterns as configured
LabelContains(label, patterns) ==
    label # None /\ \E i \in 1..Len(patterns) : Contains(patterns[i], label)

\* the label matches a pattern the way is_in_stock compares them
LabelMatches(label, patterns) ==
    AnyIn(LowerAll(patterns), Lower(Or(label, << >>)))

OnlyWhitespace(label) == \A i \in 1..Len(label) : label[i] \in Whitespace

\* C3 as stated: is_in_stock returns True for every label that contains a
\* configured in-stock pattern, also when the label contains a configured
\* sold-out pattern.
C3_AsStated ==
    (c_result # << >> /\ LabelContains(c_item.stock_text, ConfiguredInStock))
        => c_result = << TRUE >>

\* C3 amended: is_in_stock returns True for every label whose lower-cased text
\* contains the lower-cased form of a configured in-stock pattern, also when it
\* contains the lower-cased form of a configured sold-out pattern.
C3_InStockPatternWins ==
    (c_result # << >> /\ LabelMatches(c_item.stock_text, ConfiguredInStock))
        => c_result = << TRUE >>

\* C3 witness: a label matching an in-stock and a sold-out pattern was classified
C3_Witness ==
    /\ c_result = << TRUE >>
    /\ LabelMatches(c_item.stock_text, ConfiguredInStock)
    /\ LabelMatches(c_item.stock_text, ConfiguredSoldOut)
    /\ LabelContains(c_item.stock_text, ConfiguredSoldOut)

\* C4 as stated: for a label matching no pattern, the assume_in_stock_if_no_label
\* value is returned only for an absent or empty label, and every non-empty label
\* gives not_in_stock.
C4_AsStated ==
    ( /\ c_result # << >>
      /\ ~LabelMatches(c_item.stock_text, ConfiguredInStock)
      /\ ~LabelMatches(c_item.stock_text, ConfiguredSoldOut) )
        => c_result = << IF c_item.stock_text \in { None, << >> }
                         THEN AssumeIfNoLabel ELSE FALSE >>

\* C4 amended: for a label matching no pattern, the assume_in_stock_if_no_label
\* value is returned when the label is absent, empty or made of whitespace only,
\* and every label holding a non-whitespace character gives not_in_stock.
C4_BlankLabelAssumed ==
    ( /\ c_result # << >>
      /\ ~LabelMatches(c_item.stock_text, ConfiguredInStock)
      /\ ~LabelMatches(c_item.stock_text, ConfiguredSoldOut) )
        => c_result = << IF c_item.stock_text = None \/ OnlyWhitespace(c_item.stock_text)
                         THEN AssumeIfNoLabel ELSE FALSE >>

\* C4 witness: a whitespace-only label was classified in stock by assumption
C4_Witness ==
    /\ c_result = << TRUE >>
    /\ c_item.stock_text \notin { None, << >> }
    /\ OnlyWhitespace(c_item.stock_text)
    /\ ~LabelMatches(c_item.stock_text, ConfiguredInStock)

----------------------------------------------------------------------------
(* Claims about main, checked under Spec *)

Completed == pc = "done" /\ outcome = "completed"

Verdict(it) == is_in_stock(it, cfg)

\* positions of the extracted records and of the decisions of one identity
ExtractedAs(id) == { i \in 1..Len(items) : items[i].id = id }
DecisionsFor(id) == { i \in 1..Len(notifications) : notifications[i].item.id = id }

\* C1 as stated: in a completed run, an identity recorded in_stock=false whose
\* current verdict is in_stock (every record extracted for it is classified
\* in_stock) gets exactly one decision, a restock, and is recorded in_stock=true;
\* an identity recorded in_stock=true gets no decision.
C1_AsStated ==
    Completed =>
        \A id \in DOMAIN prev_items :
            /\ ( /\ prev_items[id].in_stock = FALSE
                 /\ ExtractedAs(id) # {}
                 /\ \A i \in ExtractedAs(id) : Verdict(items[i]) )
               => /\ Cardinality(DecisionsFor(id)) = 1
                  /\ \A i \in DecisionsFor(id) :
                        notifications[i].embed.description = Restock
                  /\ new_state_items[id].in_stock = TRUE
            /\ prev_items[id].in_stock = TRUE => DecisionsFor(id) = {}

\* C2 as stated: a completed run that received the same extraction result as the
\* completed run before it, under the same configuration, produces no
\* notification decision.
C2_AsStated ==
    (Completed /\ lastCompleted = << items >>) => notifications = << >>

\* C5: for a record whose identity has no prior record, the decision is "new item,
\* in stock" when the verdict is in_stock and notify_new_in_stock is enabled
\* (default true), otherwise "new item" when notify_new is enabled (default
\* false), otherwise none; the decisions are the records with a reason, in order.
C5_NewItemPolicy ==
    /\ \A i \in 1..Len(reasons) :
         items[i].id \notin DOMAIN prev_items =>
            reasons[i] =
                IF Verdict(items[i]) /\ Get(cfg, "notify_new_in_stock", TRUE)
                THEN NewInStock
                ELSE IF Get(cfg, "notify_new", FALSE) THEN NewItem ELSE None
    /\ Len(notifications) = Cardinality({ i \in 1..Len(reasons) : reasons[i] # None })
    /\ \A i \in 1..Len(notifications) :
         \E j \in 1..Len(reasons) :
            /\ notifications[i].item = items[j]
            /\ notifications[i].embed.description = reasons[j]

\* C5 witness: a new in-stock item was decided "new item" because
\* notify_new_in_stock is disabled and notify_new enabled
C5_Witness ==
    \E i \in 1..Len(reasons) :
        /\ items[i].id \notin DOMAIN prev_items
        /\ Verdict(items[i])
        /\ reasons[i] = NewItem
        /\ \E j \in 1..Len(notifications) : notifications[j].embed.description = NewItem

\* the state file holds, complete, the snapshot this run assembled
PersistedThisRun ==
    /\ saving
    /\ "last_checked" \in DOMAIN state
    /\ state["last_checked"] = now
    /\ fs[state_path] = Dump(state)
    /\ Parses(fs[state_path])

\* C6: no delivery is attempted before this run's snapshot is completely in place
\* as the state file, and save_state is entered only after every extracted item
\* is classified and in the new snapshot; also in runs cut short.
C6_SaveBeforeSend ==
    /\ attempts # << >> => PersistedThisRun
    /\ (saving /\ outcome \in { "running", "completed" }) =>
         /\ idx = Len(items) + 1
         /\ Len(reasons) = Len(items)
         /\ \A i \in 1..Len(items) :
              /\ items[i].id \in DOMAIN new_state_items
              /\ new_state_items[items[i].id].in_stock \in BOOLEAN
         /\ state["items"] = new_state_items

\* C6 witness: the run was killed after a delivery attempt
C6_Witness ==
    /\ outcome = "crashed"
    /\ attempts # << >>
    /\ PersistedThisRun

\* C7: a completed run has attempted every decision once, in decision order,
\* whichever deliveries failed, and the state file holds the snapshot assembled
\* from the extracted items whatever the deliveries did.
C7_AllDeliveriesAttempted ==
    Completed =>
        /\ Len(attempts) = Len(notifications)
        /\ \A i \in 1..Len(notifications) : attempts[i].embed = notifications[i].embed
        /\ fs[state_path] = Dump(state)
        /\ state["items"] = new_state_items
        /\ state["last_checked"] = now

\* C7 witness: the first delivery failed and the second succeeded
C7_Witness ==
    /\ Completed
    /\ Len(attempts) >= 2
    /\ attempts[1].ok = FALSE
    /\ attempts[2].ok = TRUE

\* C8 as stated: a run without a configured webhook attempts no extraction.
C8_AsStated == ~Truthy(webhook) => ~fetched

\* C9: a run that returned because the webhook is missing or because fetching or
\* parsing raised leaves the state file as it found it and attempts no delivery.
C9_AbortKeepsSnapshot ==
    (pc = "done" /\ outcome \in { "no_webhook", "extract_error" }) =>
        /\ fs[state_path] = diskAtStart
        /\ attempts = << >>
        /\ ~saving

\* C9 witness: a run without a webhook returned after fetching, with the snapshot
\* of an earlier run on disk
C9_Witness ==
    /\ pc = "done"
    /\ outcome = "no_webhook"
    /\ fetched
    /\ diskAtStart # NoFile
    /\ fs[state_path] = diskAtStart

\* C10: whatever point save_state has reached, also in a run killed or failed
\* there, the state file is absent or loads, and holds the complete snapshot the
\* run found or the complete snapshot the run assembled.
C10_AtomicSave ==
    /\ ~load_state_raises(state_path)
    /\ \/ fs[state_path] = diskAtStart
       \/ saving /\ fs[state_path] = Dump(state)

\* C10 witness: the run was killed with the temporary file partly written, over an
\* existing snapshot
C10_Witness ==
    /\ outcome = "crashed"
    /\ saving
    /\ fs[tmp_path(state_path)] # NoFile
    /\ fs[tmp_path(state_path)] # << >>
    /\ ~Parses(fs[tmp_path(state_path)])
    /\ diskAtStart # NoFile
    /\ fs[state_path] = diskAtStart

\* C11: after a completed run the state file loads, the identities of its items
\* mapping are exactly the identities extracted in this run (entries of the
\* loaded snapshot for other identities are gone) and last_checked is this run's
\* time; a run that extracted nothing persists an empty mapping, decides and
\* attempts no notification, and completes.
C11_SnapshotIsThisExtraction ==
    Completed =>
        /\ ~load_state_raises(state_path)
        /\ fs[state_path] # NoFile
        /\ DOMAIN load_state(state_path)["items"] = ExtractedIds
        /\ Get(load_state(state_path), "last_checked", NoTime) = now
        /\ items = << >> =>
              /\ load_state(state_path)["items"] = << >>
              /\ notifications = << >>
              /\ attempts = << >>

\* C11 witness: a run that extracted nothing completed over a snapshot that held
\* an item, and the state file now holds an empty mapping
C11_Witness ==
    /\ Completed
    /\ items = << >>
    /\ prev_items # << >>
    /\ fs[state_path] # diskAtStart
    /\ load_state(state_path)["items"] = << >>

----------------------------------------------------------------------------
(* Claims about the extractors, checked under SpecParse *)

\* the elements of the page none of whose field reads raises
RECURSIVE WithoutRaising(_)
WithoutRaising(page) ==
    IF page = << >> THEN << >>
    ELSE IF Head(page).raises # "none" THEN WithoutRaising(Tail(page))
    ELSE << Head(page) >> \o WithoutRaising(Tail(page))

\* C12 as stated: each extractor returns what it returns for the page without
\* the elements one of whose field reads raises (such an element contributes no
\* record, the others are extracted), and so the two extractors return the same
\* records.
C12_AsStated ==
    /\ p_bs4 # << >> => p_bs4 = << parse_with_bs4(WithoutRaising(p_page)) >>
    /\ p_playwright # << >> =>
          p_playwright = << parse_with_playwright(WithoutRaising(p_page)) >>
    /\ (p_bs4 # << >> /\ p_playwright # << >>) => p_bs4 = p_playwright

\* C12, the part that holds: parse_with_playwright returns what it returns for
\* the page without the elements one of whose field reads raises.
C12_PlaywrightSkips ==
    p_playwright # << >> =>
        p_playwright = << parse_with_playwright(WithoutRaising(p_page)) >>

\* C12 witness: an element whose stock label read raises, after its name and
\* link were read, is followed by one that is extracted by both extractors, and
\* parse_with_bs4 returned one record more than parse_with_playwright
C12_Witness ==
    /\ Len(p_page) = 2
    /\ p_page[1].raises = "stock" /\ p_page[1].name # None
    /\ p_page[2].raises = "none"
    /\ p_bs4 # << >> /\ p_playwright # << >>
    /\ Len(p_playwright[1]) = 1
    /\ Len(p_bs4[1]) = 2

----------------------------------------------------------------------------
(* More claims about main, checked under Spec *)

\* C13: a run in which save_state raised, at the opening or the writing of the
\* temporary file or at the rename, has ended with that error, leaves the state
\* file as the run found it, and has attempted no delivery.
C13_SaveErrorAborts ==
    /\ outcome = "save_error" =>
          /\ pc = "done"
          /\ saving
          /\ fs[state_path] = diskAtStart
          /\ ~load_state_raises(state_path)
          /\ attempts = << >>
    /\ (pc \in { "save_open", "save_write", "save_replace" }) => attempts = << >>

\* C13 witness: the rename or a write failed after the temporary file was
\* written in part or in full, in a run over an existing snapshot that had
\* assembled a new in-stock item to announce
C13_Witness ==
    /\ pc = "done"
    /\ outcome = "save_error"
    /\ diskAtStart # NoFile
    /\ fs[state_path] = diskAtStart
    /\ Len(fs[tmp_path(state_path)]) >= 2
    /\ fs[tmp_path(state_path)] = SubSeq(Dump(state), 1, Len(fs[tmp_path(state_path)]))
    /\ Get(cfg, "notify_new_in_stock", TRUE)
    /\ \E id \in DOMAIN state["items"] :
          /\ state["items"][id].in_stock
          /\ id \notin DOMAIN Parse(diskAtStart)["items"]
    /\ attempts = << >>

\* the record main writes for an extracted record (lines 243-250)
RecordOf(it) ==
    [ name |-> it.name, url |-> it.url, image |-> it.image,
      stock_text |-> it.stock_text, in_stock |-> Verdict(it), last_seen |-> now ]

IdOf(it) == Or(it.id, it.name)

\* C14 as stated: after a completed run, for every extracted record the saved
\* snapshot holds, under its identity, a record whose in_stock is the verdict
\* computed for that record in this run, made of this run's values only, whether
\* or not a decision was produced for it.
C14_AsStated ==
    Completed =>
        \A i \in 1..Len(items) :
            /\ IdOf(items[i]) \in DOMAIN load_state(state_path)["items"]
            /\ load_state(state_path)["items"][IdOf(items[i])].in_stock
                  = Verdict(items[i])
            /\ load_state(state_path)["items"][IdOf(items[i])] = RecordOf(items[i])

\* C14 for the extracted records that are the only one of their identity
C14_WhenIdentityExtractedOnce ==
    Completed =>
        \A i \in 1..Len(items) :
            ExtractedAs(items[i].id) = { i } =>
                load_state(state_path)["items"][IdOf(items[i])] = RecordOf(items[i])

\* C14 witness: a record that produced no decision overwrote the prior record of
\* its identity, changing in_stock from true to false
C14_Witness ==
    /\ Completed
    /\ \E i \in 1..Len(items) :
          /\ ExtractedAs(items[i].id) = { i }
          /\ reasons[i] = None
          /\ IdOf(items[i]) \in DOMAIN prev_items
          /\ prev_items[IdOf(items[i])].in_stock
          /\ ~load_state(state_path)["items"][IdOf(items[i])].in_stock

----------------------------------------------------------------------------
(* Claims about the state store, checked under SpecStore *)

\* C15: load_state called after save_state(S) has returned does not raise and
\* returns a mapping equal to S: the same identities, the same record for each,
\* the same last_checked; load_state called while the path holds no file does
\* not raise and returns an empty items mapping.
C15_RoundTrip ==
    s_loaded # << >> =>
        /\ (s_loaded[1].at = "send" \/ diskAtStart = NoFile) => ~s_loaded[1].raised
        /\ s_loaded[1].at = "send" =>
              /\ s_loaded[1].value = state
              /\ DOMAIN s_loaded[1].value["items"] = DOMAIN state["items"]
              /\ \A id \in DOMAIN state["items"] :
                    s_loaded[1].value["items"][id] = state["items"][id]
              /\ Get(s_loaded[1].value, "last_checked", NoTime)
                    = Get(state, "last_checked", NoTime)
        /\ (s_loaded[1].at = "save_open" /\ diskAtStart = NoFile)
              => s_loaded[1].value["items"] = << >>

\* C15 witness: a snapshot of two items with a last_checked was saved and loaded
\* back, after load_state had been called on the missing file
C15_Witness ==
    /\ s_loaded # << >>
    /\ s_loaded[1].at = "send"
    /\ Cardinality(DOMAIN state["items"]) = 2
    /\ "last_checked" \in DOMAIN state
    /\ s_loaded[1].value = state
    /\ fs[tmp_path(state_path)] = NoFile

----------------------------------------------------------------------------
(* Claims about main across runs, checked under Spec *)

\* C16 as stated: in every run each decision is attempted at most once, in
\* decision order; and no delivery is attempted for an identity whose records
\* have the verdicts they had in the run before when that run saved its
\* snapshot with a decision for that identity which it did not deliver (the
\* delivery failed, or the run was killed before it).
C16_AsStated ==
    pc = "send" =>
        /\ Len(attempts) = sent - 1
        /\ Len(attempts) <= Len(notifications)
        /\ \A i \in 1..Len(attempts) :
              /\ attempts[i].embed = notifications[i].embed
              /\ attempts[i].decision \notin decided.prev

\* C16 for the decisions about an identity extracted once in both runs
C16_WhenIdentityExtractedOnce ==
    pc = "send" =>
        /\ Len(attempts) = sent - 1
        /\ Len(attempts) <= Len(notifications)
        /\ \A i \in 1..Len(attempts) :
              /\ attempts[i].embed = notifications[i].embed
              /\ Len(attempts[i].decision.verdicts) = 1 =>
                    attempts[i].decision \notin decided.prev

\* C16 witness: the run before saved its snapshot and left undelivered a
\* decision for an identity extracted once; this run extracted that identity
\* with the same verdict and has saved its own snapshot without a decision for it
C16_Witness ==
    /\ pc = "send"
    /\ \E d \in decided.prev :
          /\ Len(d.verdicts) = 1
          /\ d.verdicts = VerdictsOf(d.id)
          /\ d \notin Decisions
    /\ sent > Len(notifications)

\* the items mapping of the snapshot the run loaded
LoadedItems ==
    IF diskAtStart = NoFile THEN << >> ELSE Get(Parse(diskAtStart), "items", << >>)

\* the position of the last extracted record of an identity
LastAs(id) == CHOOSE i \in ExtractedAs(id) : \A j \in ExtractedAs(id) : j <= i

\* C17: in the loop, when it has ended and when the run has completed, the
\* decision for every processed record is the one the policy gives for its
\* verdict and the record its identity has in the snapshot the run loaded,
\* whatever records were processed before it, also when they share its identity;
\* when the loop has ended the new snapshot holds one record per extracted
\* identity, made from the last record extracted for it, and a completed run has
\* saved exactly that.
C17_DecidedAgainstLoadedSnapshot ==
    /\ (pc \in { "loop", "save_open" } \/ Completed) =>
          LET loaded == LoadedItems
          IN  \A i \in 1..Len(reasons) :
                 reasons[i] = reason_for(prev_of(loaded, IdOf(items[i])),
                                         Verdict(items[i]), cfg)
    /\ (pc = "save_open" \/ Completed) =>
          /\ DOMAIN new_state_items = ExtractedIds
          /\ \A i \in 1..Len(items) :
                new_state_items[IdOf(items[i])] = RecordOf(items[LastAs(items[i].id)])
    /\ Completed => load_state(state_path)["items"] = new_state_items

\* C17 witness: of two records of one identity recorded sold out, the first is
\* in stock and decided a restock, the second is sold out, and the completed run
\* saved the identity as sold out
C17_Witness ==
    /\ Completed
    /\ Len(items) >= 2
    /\ items[1].id = items[2].id
    /\ items[1].id \in DOMAIN LoadedItems
    /\ ~LoadedItems[items[1].id].in_stock
    /\ Verdict(items[1]) /\ ~Verdict(items[2])
    /\ reasons[1] = Restock
    /\ reasons[2] = None
    /\ ~load_state(state_path)["items"][items[1].id].in_stock

----------------------------------------------------------------------------
(* A claim about the runs after a completed run, checked under SpecAfterRun *)

\* the identities the completed run before this one extracted
ExtractedBefore ==
    { Or(lastCompleted[1][i].id, lastCompleted[1][i].name) :
        i \in 1..Len(lastCompleted[1]) }

\* C18: in a run that follows a completed run, a record whose identity that run
\* did not extract is decided as a record without prior record: "new item, in
\* stock" when its verdict is in_stock and notify_new_in_stock is enabled,
\* "new item" when not and notify_new is enabled, nothing otherwise, and never
\* a restock; also when the identity was recorded in stock before it vanished.
C18_VanishedIsNew ==
    lastCompleted # << >> =>
        /\ \A i \in 1..Len(reasons) :
              IdOf(items[i]) \notin ExtractedBefore =>
                 /\ reasons[i] # Restock
                 /\ reasons[i] = reason_for(<< >>, Verdict(items[i]), cfg)
                 /\ (Verdict(items[i]) /\ Get(cfg, "notify_new_in_stock", TRUE))
                       => reasons[i] = NewInStock
        /\ \A id \in vanished : id \notin DOMAIN prev_items

\* C18 witness: an identity recorded in stock, then missing from a completed
\* run, is extracted in stock again and its delivery as "new item, in stock" was
\* attempted
C18_Witness ==
    /\ lastCompleted # << >>
    /\ pc = "send"
    /\ \E i \in 1..Len(notifications) :
          /\ IdOf(notifications[i].item) \in vanished
          /\ IdOf(notifications[i].item) \notin ExtractedBefore
          /\ Verdict(notifications[i].item)
          /\ notifications[i].embed.description = NewInStock
          /\ i <= Len(attempts)

====
